---- MODULE Spec2Model ----
(***************************************************************************)
(* refineTemplateLiteral (packages/zod/src/v4/core/                        *)
(* refine-template-literal.ts): a template-literal schema built from an    *)
(* ordered list of part schemas and a delimiter, refined by a callback     *)
(* that splits the composite string, safe-parses every piece with its part *)
(* schema and hands the decoded tuple to the caller's check.               *)
(*                                                                         *)
(* A JavaScript string is a sequence of one-character strings; a           *)
(* JavaScript value is a record (see StrV, NumV, Undef, TupV).             *)
(***************************************************************************)
EXTENDS Integers, Sequences, FiniteSets, TLC

VARIABLES
    cv,      \* the schema refineTemplateLiteral returned (built = FALSE before)
    calls,   \* per caller: the safeParse call in progress and its locals
    sp       \* a direct use of splitIntoTemplateLiterals on a joined list

vars == <<cv, calls, sp>>

(***************************************************************************)
(* Bounds of the model                                                     *)
(***************************************************************************)
MaxLen == 5          \* longest input string handed to safeParse
LongDelimLen == 2    \* length standing for the 1000-dash delimiter
MaxListLen == 3      \* longest list joined and split again
MaxTextLen == 1      \* longest raw text in such a list

(***************************************************************************)
(* Strings                                                                 *)
(***************************************************************************)
RECURSIVE StringsUpTo(_, _)
StringsUpTo(chars, n) ==
    IF n = 0 THEN {<<>>}
    ELSE LET shorter == StringsUpTo(chars, n - 1)
         IN  shorter \cup {Append(s, ch) : s \in {t \in shorter : Len(t) = n - 1}, ch \in chars}

Chars(s) == {s[i] : i \in 1..Len(s)}

StartsWithAt(s, d, p) ==
    /\ p + Len(d) - 1 <= Len(s)
    /\ \A k \in 1..Len(d) : s[p + k - 1] = d[k]

\* String.prototype.indexOf: the first position (1-based) of d in s, 0 if none
IndexOf(s, d) ==
    LET hits == {p \in 1..(Len(s) + 1) : StartsWithAt(s, d, p)}
    IN  IF hits = {} THEN 0 ELSE CHOOSE p \in hits : \A q \in hits : p <= q

\* String.prototype.includes
Includes(s, d) == IndexOf(s, d) # 0

RECURSIVE SplitScan(_, _)
SplitScan(s, d) ==
    LET q == IndexOf(s, d)
    IN  IF q = 0 THEN <<s>>
        ELSE <<SubSeq(s, 1, q - 1)>> \o SplitScan(SubSeq(s, q + Len(d), Len(s)), d)

\* String.prototype.split with a string separator and no limit
StringSplit(s, d) ==
    IF d = <<>> THEN [i \in 1..Len(s) |-> <<s[i]>>]
    ELSE SplitScan(s, d)

RECURSIVE Join(_, _)
\* Array.prototype.join
Join(lst, d) ==
    IF lst = <<>> THEN <<>>
    ELSE IF Len(lst) = 1 THEN lst[1]
    ELSE lst[1] \o d \o Join(Tail(lst), d)

(***************************************************************************)
(* Values                                                                  *)
(***************************************************************************)
StrV(s)  == [type |-> "string",    str |-> s,    num |-> 0, items |-> <<>>]
NumV(n)  == [type |-> "number",    str |-> <<>>, num |-> n, items |-> <<>>]
Undef    == [type |-> "undefined", str |-> <<>>, num |-> 0, items |-> <<>>]
TupV(xs) == [type |-> "tuple",     str |-> <<>>, num |-> 0, items |-> xs]

\* arr[i] of a JavaScript array of strings (0-based i); out of range is undefined
ArrayAt(arr, i) == IF i + 1 \in 1..Len(arr) THEN StrV(arr[i + 1]) ELSE Undef

(***************************************************************************)
(* Part schemas: what one part schema's safeParse does with one value.     *)
(* A numeric part decodes integer-like text to the integer it denotes.     *)
(***************************************************************************)
Ok(v)     == [success |-> TRUE,  data |-> v,     error |-> "none"]
Fail(why) == [success |-> FALSE, data |-> Undef, error |-> why]

Digits == {"0", "1", "2", "3", "4", "5", "6", "7", "8", "9"}

DigitVal(ch) ==
    CASE ch = "0" -> 0 [] ch = "1" -> 1 [] ch = "2" -> 2 [] ch = "3" -> 3
      [] ch = "4" -> 4 [] ch = "5" -> 5 [] ch = "6" -> 6 [] ch = "7" -> 7
      [] ch = "8" -> 8 [] ch = "9" -> 9

IsIntText(s) == Len(s) > 0 /\ \A i \in 1..Len(s) : s[i] \in Digits

RECURSIVE ParseNum(_)
ParseNum(s) ==
    IF s = <<>> THEN 0
    ELSE 10 * ParseNum(SubSeq(s, 1, Len(s) - 1)) + DigitVal(s[Len(s)])

MonthMax == 12

\* z.int().positive()
DaySchema(v) ==
    IF v.type # "string" \/ ~IsIntText(v.str) THEN Fail("invalid_type")
    ELSE IF ParseNum(v.str) <= 0 THEN Fail("too_small")
    ELSE Ok(NumV(ParseNum(v.str)))

\* z.number().positive().max(12)
MonthSchema(v) ==
    IF v.type # "string" \/ ~IsIntText(v.str) THEN Fail("invalid_type")
    ELSE IF ParseNum(v.str) <= 0 THEN Fail("too_small")
    ELSE IF ParseNum(v.str) > MonthMax THEN Fail("too_big")
    ELSE Ok(NumV(ParseNum(v.str)))

\* z.string()
StringSchema(v) == IF v.type = "string" THEN Ok(v) ELSE Fail("invalid_type")

\* z.literal(text)
LiteralSchema(text, v) == IF v = StrV(text) THEN Ok(v) ELSE Fail("invalid_value")

\* schema.safeParse(value)
SafeParse(schema, v) ==
    CASE schema = "Day"    -> DaySchema(v)
      [] schema = "Month"  -> MonthSchema(v)
      [] schema = "String" -> StringSchema(v)
      [] schema = "LitA"   -> LiteralSchema(<<"a">>, v)
      [] schema = "LitB"   -> LiteralSchema(<<"b">>, v)

\* the text shape a part schema contributes to the template literal's pattern
PartPattern(schema, s) ==
    CASE schema = "Day"    -> IsIntText(s)
      [] schema = "Month"  -> IsIntText(s)
      [] schema = "String" -> TRUE
      [] schema = "LitA"   -> s = <<"a">>
      [] schema = "LitB"   -> s = <<"b">>

(***************************************************************************)
(* The callers' checks                                                     *)
(***************************************************************************)
\* play.ts verify: day within the month's length
verify(vals) ==
    IF vals[2].num \in {4, 6, 9, 11} THEN vals[1].num <= 30
    ELSE IF vals[2].num = 2 THEN vals[1].num <= 29
    ELSE vals[1].num <= 31

\* ([a, b, c]) => Boolean(a) && Boolean(b) && Boolean(c)
allNonEmpty(vals) == \A i \in 1..Len(vals) : vals[i].str # <<>>

ThrownError == "Custom validation error"

\* check(values): what the call does, "true", "false" or "throw"
Check(check, vals) ==
    CASE check = "verify"      -> IF verify(vals) THEN "true" ELSE "false"
      [] check = "alwaysTrue"  -> "true"
      [] check = "allNonEmpty" -> IF allNonEmpty(vals) THEN "true" ELSE "false"
      [] check = "throws"      -> "throw"

(***************************************************************************)
(* refine-template-literal.ts                                              *)
(***************************************************************************)
RECURSIVE InsertLoop(_, _, _, _)
InsertLoop(out, lst, delim, i) ==
    IF i < Len(lst)
    THEN InsertLoop(Append(Append(out, delim), lst[i + 1]), lst, delim, i + 1)
    ELSE out

\* the loop run from the first element, with no special case for it
InsertBeforeEvery(lst, delim) == InsertLoop(<<>>, lst, delim, 0)

insertDelimiterIntoTuple(lst, delim) ==
    InsertLoop(IF Len(lst) > 0 THEN <<lst[1]>> ELSE <<>>, lst, delim, 1)

\* a split that drops the empty pieces
SplitDroppingEmpty(str, delimiter) ==
    SelectSeq(StringSplit(str, delimiter), LAMBDA piece : piece # <<>>)

\* a split that leaves the string whole on the empty delimiter
SplitWholeOnEmpty(str, delimiter) ==
    IF delimiter = <<>> THEN <<str>> ELSE StringSplit(str, delimiter)

splitIntoTemplateLiterals(str, delimiter) == StringSplit(str, delimiter)

\* the callback indexing the pieces one too far
SafeParsePartShifted(parts, unparsedValues, i) ==
    SafeParse(parts[i + 1], ArrayAt(unparsedValues, i + 1))

\* (schema, i) => schema.safeParse(unparsedValues[i]), i counted from 0
SafeParsePart(parts, unparsedValues, i) ==
    SafeParse(parts[i + 1], ArrayAt(unparsedValues, i))

mapSafeParse(parts, unparsedValues) ==
    [i \in 1..Len(parts) |-> SafeParsePart(parts, unparsedValues, i - 1)]

\* results.some in place of results.every
SomeSuccess(results) == \E i \in 1..Len(results) : results[i].success

\* results.every((x) => x.success)
EverySuccess(results) == \A i \in 1..Len(results) : results[i].success

\* the decoded values in reverse order
MapDataReversed(results) == [i \in 1..Len(results) |-> results[Len(results) + 1 - i].data]

\* results.map((r) => r.data)
MapData(results) == [i \in 1..Len(results) |-> results[i].data]

\* the call wrapped in a try/catch that turns a throw into false
InvokeCheckCaught(check, data) ==
    IF Check(check, data) = "throw" THEN "false" ELSE Check(check, data)

\* return check(data): the callback has no try/catch around the call
InvokeCheck(check, data) == Check(check, data)

\* the refine callback as a whole: "true", "false" or "throw"
RefineCallback(parts, delim, check, compositeValue) ==
    LET unparsedValues == splitIntoTemplateLiterals(compositeValue, delim)
        results == mapSafeParse(parts, unparsedValues)
    IN  IF ~EverySuccess(results) THEN "false"
        ELSE InvokeCheck(check, MapData(results))

(***************************************************************************)
(* z.templateLiteral(partsWithSeparators): the structural match            *)
(***************************************************************************)
SchemaPart(schema) == [kind |-> "schema",  schema |-> schema, text |-> <<>>]
LiteralPart(text)  == [kind |-> "literal", schema |-> "none", text |-> text]

ElementMatches(el, s) ==
    IF el.kind = "literal" THEN s = el.text ELSE PartPattern(el.schema, s)

RECURSIVE TemplateMatch(_, _)
TemplateMatch(template, s) ==
    IF template = <<>> THEN s = <<>>
    ELSE \E k \in 0..Len(s) :
            /\ ElementMatches(template[1], SubSeq(s, 1, k))
            /\ TemplateMatch(Tail(template), SubSeq(s, k + 1, Len(s)))

(***************************************************************************)
(* The schemas the repository builds with refineTemplateLiteral            *)
(***************************************************************************)
Dashes == [i \in 1..LongDelimLen |-> "-"]

DateSchema ==
    [name |-> "DateSchema", parts |-> <<"Day", "Month">>, delim |-> <<",">>,
     check |-> "verify", templateLiteralParams |-> "{}", checkParams |-> "Verify failed!"]

EmptyDelimiterSchema ==
    [name |-> "EmptyDelimiter", parts |-> <<"LitA", "LitB">>, delim |-> <<>>,
     check |-> "alwaysTrue", templateLiteralParams |-> "test", checkParams |-> "Should fail"]

DelimiterInDataSchema ==
    [name |-> "DelimiterInData", parts |-> <<"String", "String">>, delim |-> <<"|">>,
     check |-> "alwaysTrue", templateLiteralParams |-> "text",
     checkParams |-> "Should handle delimiter in data"]

ThrowingCheckSchema ==
    [name |-> "ThrowingCheck", parts |-> <<"String">>, delim |-> <<"|">>,
     check |-> "throws", templateLiteralParams |-> "error", checkParams |-> "Should not see this"]

ThreePartsSchema ==
    [name |-> "ThreeParts", parts |-> <<"String", "String", "String">>, delim |-> <<",">>,
     check |-> "allNonEmpty", templateLiteralParams |-> "three-parts",
     checkParams |-> "All parts must be non-empty"]

LongDelimiterSchema ==
    [name |-> "LongDelimiter", parts |-> <<"String", "String">>, delim |-> Dashes,
     check |-> "alwaysTrue", templateLiteralParams |-> "long-delimiter",
     checkParams |-> "Failed to parse with long delimiter"]

\* the empty delimiter between two parts that accept any text
EmptyDelimiterStringsSchema ==
    [name |-> "EmptyDelimiterStrings", parts |-> <<"String", "String">>, delim |-> <<>>,
     check |-> "alwaysTrue", templateLiteralParams |-> "test", checkParams |-> "Should fail"]

\* the long delimiter before a check that can reject
LongDelimiterNonEmptySchema ==
    [name |-> "LongDelimiterNonEmpty", parts |-> <<"String", "String">>, delim |-> Dashes,
     check |-> "allNonEmpty", templateLiteralParams |-> "long-delimiter",
     checkParams |-> "All parts must be non-empty"]

Schemas ==
    {DateSchema, EmptyDelimiterSchema, DelimiterInDataSchema, ThrowingCheckSchema,
     ThreePartsSchema, LongDelimiterSchema, EmptyDelimiterStringsSchema,
     LongDelimiterNonEmptySchema}

\* the characters inputs are made of: what the parts read, the delimiter, and
\* for the date schema the foreign separator of "31/11"
SampleChars(schema) ==
    CASE schema = "Day"    -> {"0", "1", "3", "7", "/"}
      [] schema = "Month"  -> {"0", "1", "3", "7", "/"}
      [] schema = "String" -> {"a", "b", "c"}
      [] schema = "LitA"   -> {"a"}
      [] schema = "LitB"   -> {"b"}

Alphabet(v) ==
    UNION {SampleChars(v.parts[i]) : i \in 1..Len(v.parts)} \cup Chars(v.delim)

Inputs(v) == StringsUpTo(Alphabet(v), MaxLen)

\* the inputs the repository's own calls pass to each schema
SampleInputs(v) ==
    CASE v.name = "DateSchema" ->
            {<<"7", ",", "1", "1">>, <<"3", "1", "/", "1", "1">>, <<"3", "1", ",", "1", "1">>}
      [] v.name = "EmptyDelimiter" -> {<<"a", "b">>}
      [] v.name = "DelimiterInData" ->
            {<<"a", "|", "b", "|", "c", "|", "d">>, <<"|", "|">>}
      [] v.name = "ThrowingCheck" -> {<<"t", "e", "s", "t">>}
      [] v.name = "ThreeParts" ->
            {<<"a", ",", "b", ",", "c">>, <<"a", ",", ",", "c">>,
             <<",", "b", ",", "c">>, <<"a", ",", "b", ",">>}
      [] v.name = "LongDelimiter" ->
            {<<"s">> \o Dashes \o <<"e">>, <<"s", "-", "e">>, Dashes}
      [] v.name = "EmptyDelimiterStrings" -> {<<"a", "b">>, <<"a">>}
      [] v.name = "LongDelimiterNonEmpty" -> {<<"s">> \o Dashes \o <<"e">>, Dashes}

(***************************************************************************)
(* Outcomes of safeParse on the refined template literal                   *)
(***************************************************************************)
NoIssue == <<>>
Issue(code, message) == [code |-> code, message |-> message, position |-> 0]

NoOutcome  == [kind |-> "none",    data |-> Undef, issues |-> NoIssue, thrown |-> "none"]
Success(v) == [kind |-> "Success", data |-> v,     issues |-> NoIssue, thrown |-> "none"]
Failure(issues) == [kind |-> "Failure", data |-> Undef, issues |-> issues, thrown |-> "none"]
Threw(err) == [kind |-> "Threw",   data |-> Undef, issues |-> NoIssue, thrown |-> err]

\* the template literal rejects the input: one invalid_format issue
StructuralFailure(v) == Failure(<<Issue("invalid_format", v.templateLiteralParams)>>)

\* checks that run whatever the schema's own parse said
RefineRunsAlways(matched) == TRUE

\* checks of a schema run only on a value its own parse accepted
RefineRuns(matched) == matched

\* .refine(callback, checkParams): the value passes through unchanged when the
\* callback returns true, one custom issue when it returns false, and nothing
\* catches what the callback throws
RefineResult(ret, compositeValue, checkParams) ==
    CASE ret = "true"  -> Success(StrV(compositeValue))
      [] ret = "false" -> Failure(<<Issue("custom", checkParams)>>)
      [] ret = "throw" -> Threw(ThrownError)

\* one whole safeParse(input), run alone
SafeValidate(v, input) ==
    IF ~RefineRuns(TemplateMatch(v.partsWithSeparators, input)) THEN StructuralFailure(v)
    ELSE RefineResult(RefineCallback(v.parts, v.delim, v.check, input), input, v.checkParams)

(***************************************************************************)
(* State                                                                   *)
(***************************************************************************)
Callers == {"c1", "c2"}

NotBuilt ==
    [built |-> FALSE, name |-> "none", parts |-> <<>>, delim |-> <<>>, check |-> "none",
     templateLiteralParams |-> "none", checkParams |-> "none", partsWithSeparators |-> <<>>]

IdleCall ==
    [pc |-> "idle", input |-> <<>>, unparsedValues |-> <<>>, results |-> <<>>,
     outcome |-> NoOutcome, splits |-> 0, received |-> <<>>, checkArgs |-> <<>>]

IdleSplit == [pc |-> "idle", lst |-> <<>>, delim |-> <<>>, joined |-> <<>>, out |-> <<>>]

Init ==
    /\ cv = NotBuilt
    /\ calls = [c \in Callers |-> IdleCall]
    /\ sp = IdleSplit

\* the split result kept in a variable all calls share
StoreUnparsedShared(cs, c, v) ==
    [k \in DOMAIN cs |->
        IF k = c THEN [cs[k] EXCEPT !.unparsedValues = v, !.splits = @ + 1, !.pc = "L95"]
        ELSE [cs[k] EXCEPT !.unparsedValues = v]]

\* const unparsedValues = ...: a binding local to the call
StoreUnparsed(cs, c, v) ==
    [cs EXCEPT ![c].unparsedValues = v, ![c].splits = @ + 1, ![c].pc = "L95"]

\* refineTemplateLiteral(parts, delim, check, templateLiteralParams, checkParams)
refineTemplateLiteral(s) ==
    [built |-> TRUE, name |-> s.name, parts |-> s.parts, delim |-> s.delim, check |-> s.check,
     templateLiteralParams |-> s.templateLiteralParams, checkParams |-> s.checkParams,
     partsWithSeparators |->
        insertDelimiterIntoTuple([i \in 1..Len(s.parts) |-> SchemaPart(s.parts[i])],
                                 LiteralPart(s.delim))]

Construct(s) ==
    /\ ~cv.built
    /\ cv' = refineTemplateLiteral(s)
    /\ UNCHANGED <<calls, sp>>

\* schema.safeParse(input) is entered
Begin(c, inputs) ==
    /\ cv.built
    /\ calls[c].pc = "idle"
    /\ \E input \in inputs :
           calls' = [calls EXCEPT ![c] = [IdleCall EXCEPT !.pc = "parse", !.input = input]]
    /\ UNCHANGED <<cv, sp>>

\* the template literal's own parse, before any check of the schema
Structural(c) ==
    /\ calls[c].pc = "parse"
    /\ calls' = IF RefineRuns(TemplateMatch(cv.partsWithSeparators, calls[c].input))
                THEN [calls EXCEPT ![c].pc = "L94"]
                ELSE [calls EXCEPT ![c].pc = "done", ![c].outcome = StructuralFailure(cv)]
    /\ UNCHANGED <<cv, sp>>

\* line 94
Split(c) ==
    /\ calls[c].pc = "L94"
    /\ calls' = StoreUnparsed(calls, c, splitIntoTemplateLiterals(calls[c].input, cv.delim))
    /\ UNCHANGED <<cv, sp>>

\* a map that stops at the first part that fails
MapStopsAtFailure(parts, results) ==
    Len(results) = Len(parts) \/ ~EverySuccess(results)

\* parts.map has visited every part: it stops for nothing else
MapFinished(parts, results) == Len(results) = Len(parts)

\* line 95, one part schema at a time, in the order parts.map visits them
ParsePart(c) ==
    /\ calls[c].pc = "L95"
    /\ ~MapFinished(cv.parts, calls[c].results)
    /\ LET i == Len(calls[c].results)
           arg == ArrayAt(calls[c].unparsedValues, i)
       IN  calls' = [calls EXCEPT ![c].results =
                                      Append(@, SafeParsePart(cv.parts, calls[c].unparsedValues, i)),
                                  ![c].received = Append(@, arg)]
    /\ UNCHANGED <<cv, sp>>

\* lines 96-98
Every(c) ==
    /\ calls[c].pc = "L95"
    /\ MapFinished(cv.parts, calls[c].results)
    /\ calls' = IF ~EverySuccess(calls[c].results)
                THEN [calls EXCEPT ![c].pc = "done",
                                   ![c].outcome = RefineResult("false", calls[c].input, cv.checkParams)]
                ELSE [calls EXCEPT ![c].pc = "L99"]
    /\ UNCHANGED <<cv, sp>>

\* lines 99-100
CallCheck(c) ==
    /\ calls[c].pc = "L99"
    /\ LET data == MapData(calls[c].results)
       IN  calls' = [calls EXCEPT
                ![c].checkArgs = Append(@, data),
                ![c].outcome = RefineResult(InvokeCheck(cv.check, data), calls[c].input, cv.checkParams),
                ![c].pc = "done"]
    /\ UNCHANGED <<cv, sp>>

\* the caller has the outcome; its next call starts afresh
Return(c) ==
    /\ calls[c].pc = "done"
    /\ calls' = [calls EXCEPT ![c] = IdleCall]
    /\ UNCHANGED <<cv, sp>>

\* one caller, every input up to MaxLen
Next ==
    \/ \E s \in Schemas : Construct(s)
    \/ Begin("c1", Inputs(cv))
    \/ Structural("c1")
    \/ Split("c1")
    \/ ParsePart("c1")
    \/ Every("c1")
    \/ CallCheck("c1")
    \/ Return("c1")

Spec == Init /\ [][Next]_vars

\* two callers interleaved, on the inputs the repository's own calls use
NextConc ==
    \/ \E s \in Schemas : Construct(s)
    \/ \E c \in Callers : Begin(c, SampleInputs(cv))
    \/ \E c \in Callers : Structural(c)
    \/ \E c \in Callers : Split(c)
    \/ \E c \in Callers : ParsePart(c)
    \/ \E c \in Callers : Every(c)
    \/ \E c \in Callers : CallCheck(c)
    \/ \E c \in Callers : Return(c)

SpecConc == Init /\ [][NextConc]_vars

(***************************************************************************)
(* splitIntoTemplateLiterals used directly on the join of a list of texts  *)
(***************************************************************************)
SplitChars == {"a", "-"}

SplitDelimiters == {<<>>, <<"-">>, Dashes}

RECURSIVE ListsUpTo(_, _)
ListsUpTo(texts, n) ==
    IF n = 0 THEN {<<>>}
    ELSE LET shorter == ListsUpTo(texts, n - 1)
         IN  shorter \cup {Append(l, x) : l \in {m \in shorter : Len(m) = n - 1}, x \in texts}

InitSplit ==
    /\ cv = NotBuilt
    /\ calls = [c \in Callers |-> IdleCall]
    /\ sp \in {[IdleSplit EXCEPT !.pc = "start", !.lst = l, !.delim = d] :
                  l \in ListsUpTo(StringsUpTo(SplitChars, MaxTextLen), MaxListLen),
                  d \in SplitDelimiters}

\* lst.join(delim)
JoinList ==
    /\ sp.pc = "start"
    /\ sp' = [sp EXCEPT !.pc = "joined", !.joined = Join(sp.lst, sp.delim)]
    /\ UNCHANGED <<cv, calls>>

\* splitIntoTemplateLiterals(joined, delim)
SplitJoined ==
    /\ sp.pc = "joined"
    /\ sp' = [sp EXCEPT !.pc = "done", !.out = splitIntoTemplateLiterals(sp.joined, sp.delim)]
    /\ UNCHANGED <<cv, calls>>

NextSplit == JoinList \/ SplitJoined

SpecSplit == InitSplit /\ [][NextSplit]_vars

(***************************************************************************)
(* insertDelimiterIntoTuple used directly on a list and a separator; an    *)
(* element of the list may be the separator's own value                    *)
(***************************************************************************)
InsertElements == {"x", "y", "sep"}

InsertSeparators == {"sep", "y"}

InitInsert ==
    /\ cv = NotBuilt
    /\ calls = [c \in Callers |-> IdleCall]
    /\ sp \in {[IdleSplit EXCEPT !.pc = "start", !.lst = l, !.delim = d] :
                  l \in ListsUpTo(InsertElements, MaxListLen),
                  d \in InsertSeparators}

\* insertDelimiterIntoTuple(lst, delim): lst is read, out is built and returned
InsertCall ==
    /\ sp.pc = "start"
    /\ sp' = [sp EXCEPT !.pc = "done", !.out = insertDelimiterIntoTuple(sp.lst, sp.delim)]
    /\ UNCHANGED <<cv, calls>>

NextInsert == InsertCall

SpecInsert == InitInsert /\ [][NextInsert]_vars

(***************************************************************************)
(* Properties                                                              *)
(***************************************************************************)
Matched(c) == TemplateMatch(cv.partsWithSeparators, calls[c].input)

\* the call has run every part schema
AllParsed(c) == cv.built /\ calls[c].splits > 0 /\ Len(calls[c].results) = Len(cv.parts)

\* what the part schemas decode from the pieces the call split off
DecodedPieces(c) ==
    [i \in 1..Len(cv.parts) |->
        SafeParse(cv.parts[i], ArrayAt(calls[c].unparsedValues, i - 1)).data]

FailingPositions(c) == {i \in 1..Len(calls[c].results) : ~calls[c].results[i].success}

PredicateRejection == Failure(<<Issue("custom", cv.checkParams)>>)

\* C1: whenever a part schema of a call has returned a failure, the caller's
\* check has not been invoked in that call, and never is before it ends.
C1_NoCheckAfterSegmentFailure ==
    \A c \in Callers : FailingPositions(c) # {} => calls[c].checkArgs = <<>>

C1_Witness ==
    /\ calls["c1"].pc = "done"
    /\ Len(calls["c1"].results) = 2
    /\ calls["c1"].results[1].success
    /\ ~calls["c1"].results[2].success
    /\ calls["c1"].checkArgs = <<>>

\* C2: a call whose structural match passed and in which part schemas failed
\* ends in a failure holding one issue per failing position, with that part's
\* own error and its position, and differing from the predicate rejection.
C2_AggregatesSegmentErrors ==
    \A c \in Callers :
        (calls[c].pc = "done" /\ AllParsed(c) /\ FailingPositions(c) # {}) =>
            /\ calls[c].outcome.kind = "Failure"
            /\ \A i \in FailingPositions(c) :
                  \E k \in 1..Len(calls[c].outcome.issues) :
                      /\ calls[c].outcome.issues[k].position = i
                      /\ calls[c].outcome.issues[k].code = calls[c].results[i].error
            /\ calls[c].outcome # PredicateRejection

\* the lists of n texts whose join with d is s
RECURSIVE Cuts(_, _, _)
Cuts(s, n, d) ==
    IF n = 0 THEN (IF s = <<>> THEN {<<>>} ELSE {})
    ELSE IF n = 1 THEN {<<s>>}
    ELSE UNION {{<<SubSeq(s, 1, k)>> \o rest :
                    rest \in Cuts(SubSeq(s, k + Len(d) + 1, Len(s)), n - 1, d)} :
                k \in {j \in 0..Len(s) : StartsWithAt(s, d, j + 1)}}

\* the lists of texts, none holding the delimiter and each accepted by its part
\* schema, whose join is the input
ValidLists(v, input) ==
    {lst \in Cuts(input, Len(v.parts), v.delim) :
        \A i \in 1..Len(lst) :
            /\ ~Includes(lst[i], v.delim)
            /\ SafeParse(v.parts[i], StrV(lst[i])).success}

Decoded(v, lst) == [i \in 1..Len(lst) |-> SafeParse(v.parts[i], StrV(lst[i])).data]

\* where the join of lst put the delimiter
RECURSIVE InsertedAt(_, _, _)
InsertedAt(lst, d, k) ==
    IF k = 1 THEN Len(lst[1]) + 1
    ELSE InsertedAt(lst, d, k - 1) + Len(d) + Len(lst[k])

Occurrences(s, d) == {p \in 1..(Len(s) + 1) : StartsWithAt(s, d, p)}

\* the delimiter is not empty and is found in the join only where the join put it
OnlyInserted(lst, d) ==
    /\ d # <<>>
    /\ Occurrences(Join(lst, d), d) = {InsertedAt(lst, d, k) : k \in 1..(Len(lst) - 1)}

C4_SplitOfJoinIsList ==
    (sp.pc = "done" /\ \A i \in 1..Len(sp.lst) : ~Includes(sp.lst[i], sp.delim)) =>
        sp.out = sp.lst

\* C4 amended: splitting the join of a list of at least one text gives back
\* the list when the delimiter is non-empty and occurs in the join only where
\* the join put it.
C4_SplitOfJoinIsListWhenOnlyInserted ==
    (sp.pc = "done" /\ Len(sp.lst) >= 1 /\ OnlyInserted(sp.lst, sp.delim)) =>
        sp.out = sp.lst

C4_Witness ==
    /\ sp.pc = "done"
    /\ sp.delim = <<"-">>
    /\ sp.lst = <<<<"a">>, <<>>, <<"a">>>>
    /\ OnlyInserted(sp.lst, sp.delim)
    /\ sp.out = sp.lst

\* C5: a call in which every part schema succeeded and the check throws ends
\* with the thrown error itself, neither a Success nor a Failure outcome.
C5_ThrowPropagates ==
    \A c \in Callers :
        (calls[c].pc = "done" /\ AllParsed(c) /\ FailingPositions(c) = {}
            /\ Check(cv.check, DecodedPieces(c)) = "throw") =>
                calls[c].outcome = Threw(ThrownError)

C5_Witness ==
    /\ cv.name = "ThrowingCheck"
    /\ calls["c1"].pc = "done"
    /\ calls["c1"].results = <<Ok(StrV(calls["c1"].input))>>
    /\ calls["c1"].outcome.kind = "Threw"

\* C6: until the structural match is decided nothing else of the call has
\* run, and a call whose input does not have the template's shape never runs
\* the splitter, a part schema or the check, and ends in the structural failure.
C6_StructuralMatchFirst ==
    \A c \in Callers :
        /\ calls[c].pc = "parse" =>
              /\ calls[c].splits = 0
              /\ calls[c].received = <<>>
              /\ calls[c].checkArgs = <<>>
        /\ (calls[c].pc # "idle" /\ ~Matched(c)) =>
              /\ calls[c].splits = 0
              /\ calls[c].received = <<>>
              /\ calls[c].checkArgs = <<>>
              /\ calls[c].pc \in {"parse", "done"}
              /\ calls[c].pc = "done" => calls[c].outcome = StructuralFailure(cv)

C6_Witness ==
    /\ cv.name = "DateSchema"
    /\ calls["c1"].pc = "done"
    /\ calls["c1"].input = <<"3", "1", "/", "1", "1">>
    /\ calls["c1"].outcome = StructuralFailure(cv)
    /\ calls["c1"].splits = 0

\* C7: a call whose structural match passed and whose split gave more pieces
\* than there are part schemas does not return Success.
C7_SurplusPiecesFail ==
    \A c \in Callers :
        (calls[c].pc = "done" /\ calls[c].splits > 0
            /\ Len(calls[c].unparsedValues) > Len(cv.parts)) =>
                calls[c].outcome.kind # "Success"

\* C8: a call in which every part schema succeeded invokes the check exactly
\* once, with the tuple of decoded values in order; a false return ends the
\* call in one issue carrying checkParams, a true return in Success.
C8_PredicateDecides ==
    \A c \in Callers :
        (calls[c].pc = "done" /\ AllParsed(c) /\ FailingPositions(c) = {}) =>
            /\ calls[c].checkArgs = <<DecodedPieces(c)>>
            /\ Check(cv.check, DecodedPieces(c)) = "false" =>
                  calls[c].outcome = PredicateRejection
            /\ Check(cv.check, DecodedPieces(c)) = "true" =>
                  calls[c].outcome.kind = "Success"

C8_Witness ==
    /\ cv.name = "DateSchema"
    /\ calls["c1"].pc = "done"
    /\ calls["c1"].input = <<"3", "1", ",", "1", "1">>
    /\ calls["c1"].checkArgs = <<<<NumV(31), NumV(11)>>>>
    /\ calls["c1"].outcome = Failure(<<Issue("custom", "Verify failed!")>>)

\* C9: with the empty delimiter the split of any input is its characters, one
\* piece each and in order, and part schema i is handed character i (nothing
\* when the input has no character i).
C9_EmptyDelimiterSplitsIntoChars ==
    \A c \in Callers :
        (cv.built /\ cv.delim = <<>> /\ calls[c].splits > 0) =>
            /\ calls[c].unparsedValues = [i \in 1..Len(calls[c].input) |-> <<calls[c].input[i]>>]
            /\ \A j \in 1..Len(calls[c].received) :
                  calls[c].received[j] =
                      IF j <= Len(calls[c].input) THEN StrV(<<calls[c].input[j]>>) ELSE Undef

C9_Witness ==
    /\ cv.name = "EmptyDelimiter"
    /\ calls["c1"].pc = "done"
    /\ calls["c1"].input = <<"a", "b">>
    /\ calls["c1"].unparsedValues = <<<<"a">>, <<"b">>>>
    /\ calls["c1"].received = <<StrV(<<"a">>), StrV(<<"b">>)>>

\* C10: no step of any interleaving of calls changes the built schema, every
\* finished call holds the outcome of running it alone, and two finished calls
\* on the same input hold equal outcomes.
C10_SchemaNeverMutated ==
    [][/\ cv.built => cv' = cv
       /\ \A c \in Callers :
             calls'[c].pc = "done" => calls'[c].outcome = SafeValidate(cv', calls'[c].input)
       /\ \A c, d \in Callers :
             (calls'[c].pc = "done" /\ calls'[d].pc = "done"
                 /\ calls'[c].input = calls'[d].input) =>
                    calls'[c].outcome = calls'[d].outcome]_vars

C10_Witness ==
    /\ cv.name = "DateSchema"
    /\ calls["c1"].pc = "done"
    /\ calls["c2"].pc = "done"
    /\ calls["c1"].input = calls["c2"].input
    /\ calls["c1"].outcome = calls["c2"].outcome
    /\ calls["c1"].outcome.kind = "Success"

\* C11: a call of insertDelimiterIntoTuple on a list of n elements returns a
\* list of 2n-1 elements (none when n = 0) holding element i of the input at
\* position 2i (counted from 0) and the separator at every odd position, and
\* leaves the input list as it was.
C11_InterleavedShape ==
    [][(sp.pc = "start" /\ sp'.pc = "done") =>
          /\ sp'.lst = sp.lst
          /\ Len(sp'.out) = (IF Len(sp.lst) > 0 THEN 2 * Len(sp.lst) - 1 ELSE 0)
          /\ \A i \in 0..(Len(sp.lst) - 1) : sp'.out[2 * i + 1] = sp.lst[i + 1]
          /\ \A k \in 1..Len(sp'.out) : k % 2 = 0 => sp'.out[k] = sp.delim]_vars

C11_Witness ==
    /\ sp.pc = "done"
    /\ sp.delim = "sep"
    /\ sp.lst = <<"x", "sep", "y">>
    /\ sp.out = <<"x", "sep", "sep", "sep", "y">>

\* the call is past line 95: mapSafeParse has returned
MapReturned(c) == calls[c].pc \in {"L99", "done"} /\ calls[c].splits > 0

\* C12: in every call the k-th invocation of a part schema is part schema k
\* on split piece k (nothing when the split has no piece k), each at most
\* once; and when mapSafeParse has returned, every one of the n part schemas
\* has been invoked and there are exactly n outcomes, whatever failed earlier
\* and however many pieces the split gave.
C12_EveryPartParsedInOrder ==
    \A c \in Callers :
        /\ Len(calls[c].received) = Len(calls[c].results)
        /\ Len(calls[c].results) <= Len(cv.parts)
        /\ \A k \in 1..Len(calls[c].results) :
              /\ calls[c].received[k] =
                    (IF k <= Len(calls[c].unparsedValues)
                     THEN StrV(calls[c].unparsedValues[k]) ELSE Undef)
              /\ calls[c].results[k] = SafeParse(cv.parts[k], calls[c].received[k])
        /\ MapReturned(c) =>
              /\ Len(calls[c].results) = Len(cv.parts)
              /\ calls[c].results = mapSafeParse(cv.parts, calls[c].unparsedValues)

C12_Witness ==
    /\ cv.name = "DateSchema"
    /\ calls["c1"].pc = "done"
    /\ calls["c1"].input = <<"0", ",", "1", "3">>
    /\ calls["c1"].results = <<Fail("too_small"), Fail("too_big")>>
    /\ calls["c1"].received = <<StrV(<<"0">>), StrV(<<"1", "3">>)>>

====
